---- MODULE Spec2Model ----
(***************************************************************************)
(* Model of tmd/areas/create_area_weights.py: construction of the area     *)
(* weights file for one sub-national area.                                 *)
(*                                                                         *)
(* Real numbers are modelled as exact rationals [n, d] (IEEE rounding is   *)
(* not modelled).  The regularization delta is counted in units of 1e-12,  *)
(* adjusted gross income and the income-band limits in units of 1e99.      *)
(***************************************************************************)
EXTENDS Integers, Sequences, FiniteSets, TLC

\* ------------------------------------------------------------------------
\* Bounds of the model
\* ------------------------------------------------------------------------
NumRecs == 2      \* records in the national microdata table
MaxRows == 2      \* most target rows in a targets file
MaxX == 2         \* largest weight ratio an L-BFGS-B iterate holds

\* ------------------------------------------------------------------------
\* Program constants
\* ------------------------------------------------------------------------
DELTA_INIT_VALUE == 1000                  \* 1.0e-9 in units of 1e-12
DELTA_MAX_LOOPS == 5
DELTA_LOOP_DECREMENT_PerLoop == DELTA_INIT_VALUE \div DELTA_MAX_LOOPS
DELTA_LOOP_DECREMENT == DELTA_INIT_VALUE \div (DELTA_MAX_LOOPS - 1)
DELTA_FLOOR == 1                          \* smallest delta unit above 1e-20
TOLERANCE_NUM == 5                        \* TARGET_RATIO_TOLERANCE = 5/10000
TOLERANCE_DEN == 10000
AGI_UNBOUNDED == 8                        \* 8e99 in units of 1e99
FIRST_YEAR == 2021
LAST_YEAR == 2034

\* ------------------------------------------------------------------------
\* Exact rational arithmetic (Python float arithmetic without rounding)
\* ------------------------------------------------------------------------
Abs(a) == IF a < 0 THEN -a ELSE a

RECURSIVE GCD(_, _)
GCD(a, b) == IF b = 0 THEN a ELSE GCD(b, a % b)

\* n/d in lowest terms with d >= 0; d = 0 stands for a division by zero
\* (numpy's inf or nan)
Rat(n, d) ==
    IF d = 0 THEN [n |-> IF n > 0 THEN 1 ELSE IF n < 0 THEN -1 ELSE 0, d |-> 0]
    ELSE LET g == GCD(Abs(n), Abs(d))
             s == IF d < 0 THEN -1 ELSE 1
         IN [n |-> s * (n \div g), d |-> s * (d \div g)]

RInt(k) == [n |-> k, d |-> 1]
RAdd(a, b) == Rat(a.n * b.d + b.n * a.d, a.d * b.d)
RSub(a, b) == Rat(a.n * b.d - b.n * a.d, a.d * b.d)
RMul(a, b) == Rat(a.n * b.n, a.d * b.d)
RDiv(a, b) == Rat(a.n * b.d, a.d * b.n)
RIsNaN(a) == a.d = 0 /\ a.n = 0
\* comparisons with a finite b; a comparison with nan is False
RLt(a, b) == ~RIsNaN(a) /\ ~RIsNaN(b) /\ a.n * b.d < b.n * a.d
RGe(a, b) == ~RIsNaN(a) /\ ~RIsNaN(b) /\ a.n * b.d >= b.n * a.d
RGt(a, b) == ~RIsNaN(a) /\ ~RIsNaN(b) /\ a.n * b.d > b.n * a.d

RECURSIVE RSum(_, _)
\* sum of the first k entries of a sequence of rationals
RSum(s, k) == IF k = 0 THEN RInt(0) ELSE RAdd(RSum(s, k - 1), s[k])

\* np.dot(wght, target_matrix): one entry per target (matrix column)
Dot(wght, matrix, ntargets) ==
    [j \in 1..ntargets |->
        RSum([i \in 1..Len(wght) |-> RMul(wght[i], matrix[i][j])], Len(wght))]

Transpose(cols, nrows) ==
    [i \in 1..nrows |-> [j \in 1..Len(cols) |-> cols[j][i]]]

\* ------------------------------------------------------------------------
\* prepared_data: target matrix, target array and initial weights scale
\* ------------------------------------------------------------------------
FIRST_ROW_NUM == 1        \* row_num before the first target row is read

\* national_population = (vardf.s006 * vardf.XTOT).sum()
RECURSIVE NationalPopulation(_, _)
NationalPopulation(vardf, k) ==
    IF k = 0 THEN 0
    ELSE NationalPopulation(vardf, k - 1) + vardf[k].s006 * vardf[k].XTOT

\* the zero-target floor: a target of 0 is treated as 1.0
UnscaledTargetNoFloor(target) == target
UnscaledTarget(target) == IF target = 0 THEN 1 ELSE target

TargetScale(target) == RDiv(RInt(1), RInt(UnscaledTarget(target)))
ScaledTarget(target) == RMul(RInt(UnscaledTarget(target)), TargetScale(target))

\* the row whose row_num is 2 (line 2 of the CSV file, after the header
\* line) must contain the area population target
IsPopulationRowThird(row_num) == row_num = 3
IsPopulationRow(row_num) == row_num = 2

PopulationConvention(row) ==
    /\ row.varname = "XTOT"
    /\ row.count = 0
    /\ row.scope = 0
    /\ row.agilo < -AGI_UNBOUNDED
    /\ row.agihi > AGI_UNBOUNDED
    /\ row.fstatus = 0

\* divisor of the initial weights scale
ScaleDivisorWeightsOnly(vardf) == NationalPopulation([i \in 1..Len(vardf) |->
                                      [vardf[i] EXCEPT !.XTOT = 1]], Len(vardf))
ScaleDivisor(vardf) == NationalPopulation(vardf, Len(vardf))

InitialWeightsScale(row, vardf) ==
    RDiv(RInt(row.target), RInt(ScaleDivisor(vardf)))

\* the first assertion of the loop body that fails on this row, if any
RowErrorNoChecks(row, row_num) == "none"
RowError(row, row_num) ==
    IF IsPopulationRow(row_num) /\ ~PopulationConvention(row) THEN "population"
    ELSE IF ~(row.count >= 0 /\ row.count <= 1) THEN "count"
    ELSE IF ~(row.scope >= 0 /\ row.scope <= 2) THEN "scope"
    ELSE IF ~(row.fstatus >= 0 /\ row.fstatus <= 5) THEN "fstatus"
    ELSE "none"

UnmaskedValue(row, rec) ==
    IF row.count = 0 THEN rec[row.varname]
    ELSE IF rec[row.varname] > 0 THEN 1 ELSE 0

Bool2Int(b) == IF b THEN 1 ELSE 0

MaskClosedBand(row, rec) ==
    LET scope_ok == IF row.scope = 1 THEN rec.data_source = 1
                    ELSE IF row.scope = 2 THEN rec.data_source = 0
                    ELSE TRUE
        in_bin == rec.c00100 >= row.agilo /\ rec.c00100 <= row.agihi
        fs_ok == IF row.fstatus > 0 THEN rec.MARS = row.fstatus ELSE TRUE
    IN Bool2Int(scope_ok) * Bool2Int(in_bin) * Bool2Int(fs_ok)

Mask(row, rec) ==
    LET scope_ok == IF row.scope = 1 THEN rec.data_source = 1
                    ELSE IF row.scope = 2 THEN rec.data_source = 0
                    ELSE TRUE
        in_bin == rec.c00100 >= row.agilo /\ rec.c00100 < row.agihi
        fs_ok == IF row.fstatus > 0 THEN rec.MARS = row.fstatus ELSE TRUE
    IN Bool2Int(scope_ok) * Bool2Int(in_bin) * Bool2Int(fs_ok)

\* scaled_masked_varray = mask * unmasked_varray * scale
ScaledMaskedVarray(row, vardf) ==
    [i \in 1..Len(vardf) |->
        RMul(RInt(Mask(row, vardf[i]) * UnmaskedValue(row, vardf[i])),
             TargetScale(row.target))]

Unbound == [n |-> 0, d |-> 0]

RECURSIVE PrepLoop(_, _, _)
\* the local state of prepared_data after the first k target rows
PrepLoop(vardf, tdf, k) ==
    IF k = 0
    THEN [raised |-> "none", row_num |-> FIRST_ROW_NUM, tm_tuple |-> <<>>,
          ta_list |-> <<>>, initial_weights_scale |-> Unbound]
    ELSE LET prev == PrepLoop(vardf, tdf, k - 1)
             row == tdf[k]
             row_num == prev.row_num + 1
             err == RowError(row, row_num)
         IN IF prev.raised # "none" THEN prev
            ELSE [raised |-> err,
                  row_num |-> row_num,
                  tm_tuple |-> IF err = "none"
                               THEN Append(prev.tm_tuple,
                                           ScaledMaskedVarray(row, vardf))
                               ELSE prev.tm_tuple,
                  ta_list |-> Append(prev.ta_list, ScaledTarget(row.target)),
                  initial_weights_scale |->
                      IF IsPopulationRow(row_num) /\ err # "population"
                      THEN InitialWeightsScale(row, vardf)
                      ELSE prev.initial_weights_scale]

\* prepared_data(area, vardf): raised # "none" when an assertion fails (or
\* np.vstack is given no column); otherwise the returned tuple
prepared_data(vardf, tdf) ==
    LET r == PrepLoop(vardf, tdf, Len(tdf))
        none == [raised |-> "none", row_num |-> r.row_num, target_matrix |-> <<>>,
                 target_array |-> <<>>, initial_weights_scale |-> Unbound]
    IN IF r.raised # "none" THEN [none EXCEPT !.raised = r.raised]
       ELSE IF Len(tdf) = 0 THEN [none EXCEPT !.raised = "ValueError"]
       ELSE [raised |-> "none",
             row_num |-> r.row_num,
             target_matrix |-> Transpose(r.tm_tuple, Len(vardf)),
             target_array |-> r.ta_list,
             initial_weights_scale |-> r.initial_weights_scale]

\* ------------------------------------------------------------------------
\* target_misses: number of misses and the per-target listing
\* ------------------------------------------------------------------------
LowBound == RSub(RInt(1), Rat(TOLERANCE_NUM, TOLERANCE_DEN))
HighBound == RAdd(RInt(1), Rat(TOLERANCE_NUM, TOLERANCE_DEN))

IsMissClosedBand(ratio) == RLt(ratio, LowBound) \/ RGt(ratio, HighBound)
IsMiss(ratio) == RLt(ratio, LowBound) \/ RGe(ratio, HighBound)

TargetRatios(wght, target_matrix, target_array) ==
    LET actual == Dot(wght, target_matrix, Len(target_array))
    IN [j \in 1..Len(target_array) |-> RDiv(actual[j], target_array[j])]

RECURSIVE MissLines(_, _)
\* the listing built by the loop over enumerate(tratio), first k targets
MissLines(tratio, k) ==
    IF k = 0 THEN <<>>
    ELSE IF IsMiss(tratio[k])
         THEN Append(MissLines(tratio, k - 1),
                     [label |-> k, ratio |-> tratio[k]])
         ELSE MissLines(tratio, k - 1)

target_misses(wght, target_matrix, target_array) ==
    LET tratio == TargetRatios(wght, target_matrix, target_array)
        num == Cardinality({j \in 1..Len(tratio) : IsMiss(tratio[j])})
    IN [num |-> num,
        mstr |-> IF num > 0 THEN MissLines(tratio, Len(tratio)) ELSE <<>>]

\* ------------------------------------------------------------------------
\* Inputs: microdata records, target rows, solver iterates, forecasts
\* ------------------------------------------------------------------------
Rec(w, x, e, agi, ds, mars) ==
    [s006 |-> w, XTOT |-> x, e00200 |-> e, c00100 |-> agi,
     data_source |-> ds, MARS |-> mars]

RecVals == {Rec(1, 1, 2, 0, 1, 1), Rec(2, 2, 0, 1, 0, 2), Rec(1, 0, -1, -1, 1, 2)}

\* tables of NumRecs records with a positive national population
Vardfs == {v \in [1..NumRecs -> RecVals] : NationalPopulation(v, NumRecs) > 0}

Row(v, c, s, lo, hi, f, t) ==
    [varname |-> v, count |-> c, scope |-> s, agilo |-> lo, agihi |-> hi,
     fstatus |-> f, target |-> t]

PopRow(t) == Row("XTOT", 0, 0, -9, 9, 0, t)

\* candidate first rows: population rows and rows that break the convention
FirstRows ==
    {PopRow(t) : t \in {0, 5, 10}}
    \cup {Row("e00200", 0, 0, -9, 9, 0, 5), Row("XTOT", 1, 0, -9, 9, 0, 5),
          Row("XTOT", 0, 1, -9, 9, 0, 5), Row("XTOT", 0, 0, -8, 9, 0, 5),
          Row("XTOT", 0, 0, -9, 8, 0, 5), Row("XTOT", 0, 0, -9, 9, 1, 5),
          Row("XTOT", 2, 0, -9, 9, 0, 5)}

\* candidate later rows: valid targets and rows with an out-of-range code
OtherRows ==
    {PopRow(5),
     Row("e00200", 0, 0, -9, 9, 0, 4), Row("e00200", 0, 0, -9, 9, 0, 0),
     Row("e00200", 0, 0, -9, 9, 0, -2), Row("e00200", 1, 1, 0, 1, 0, 2),
     Row("e00200", 1, 2, 0, 9, 2, 3), Row("XTOT", 1, 0, -9, 1, 1, 1),
     Row("XTOT", 0, 2, 1, 9, 5, 4), Row("XTOT", 0, 0, 0, 1, 0, 3),
     Row("e00200", -1, 0, -9, 9, 0, 4), Row("e00200", 2, 0, -9, 9, 0, 4),
     Row("e00200", 0, -1, -9, 9, 0, 4), Row("e00200", 0, 3, -9, 9, 0, 4),
     Row("e00200", 0, 0, -9, 9, -1, 4), Row("e00200", 0, 0, -9, 9, 6, 4)}

RECURSIVE TdfsOfLen(_)
TdfsOfLen(k) ==
    IF k = 0 THEN {<<>>}
    ELSE IF k = 1 THEN {<<f>> : f \in FirstRows}
    ELSE {Append(t, o) : t \in TdfsOfLen(k - 1), o \in OtherRows}

Tdfs == UNION {TdfsOfLen(k) : k \in 0..MaxRows}

\* iterates the L-BFGS-B solver may return (bounds 0 <= x): all zero, all
\* one, and the neutral vector with its first entry raised
Uniform(n, c) == [i \in 1..n |-> c]
SolverIterates(n) ==
    {Uniform(n, 0), Uniform(n, 1), [Uniform(n, 1) EXCEPT ![1] = MaxX]}

\* microdata tables and targets files offered to create_area_weights_file
LoopInfiles ==
    {<<Rec(1, 1, 2, 0, 1, 1), Rec(2, 2, 0, 1, 0, 2)>>,
     <<Rec(1, 1, 2, 0, 1, 1), Rec(0, 2, 0, 1, 0, 2)>>}
     \cup {[i \in 1..NumRecs |-> Rec(1, 1, 2, 0, 1, 1)]}

LoopTdfs ==
    {<<PopRow(10)>>,
     <<PopRow(10), Row("e00200", 0, 0, -9, 9, 0, 4)>>,
     <<PopRow(5), Row("e00200", 1, 0, 0, 1, 0, 0)>>,
     <<Row("e00200", 0, 0, -9, 9, 0, 4), PopRow(10)>>,
     <<Row("XTOT", 0, 0, -8, 9, 0, 10)>>,
     <<PopRow(10), Row("e00200", 2, 0, -9, 9, 0, 4)>>,
     <<PopRow(10), Row("e00200", -1, 0, -9, 9, 0, 4)>>,
     <<PopRow(10), Row("e00200", 0, 3, -9, 9, 0, 4)>>,
     <<PopRow(10), Row("e00200", 0, -1, -9, 9, 0, 4)>>,
     <<PopRow(10), Row("e00200", 0, 0, -9, 9, 6, 4)>>,
     <<PopRow(10), Row("e00200", 0, 0, -9, 9, -1, 4)>>}

Years == FIRST_YEAR..LAST_YEAR
PopForecasts ==
    {[y \in Years |-> 100],
     [y \in Years |-> IF y = FIRST_YEAR THEN 100
                      ELSE IF y = FIRST_YEAR + 1 THEN 110
                      ELSE 121 + 10 * (y - FIRST_YEAR - 2)]}

NoFile == [exists |-> FALSE, data |-> <<>>]
File(d) == [exists |-> TRUE, data |-> d]

\* ------------------------------------------------------------------------
\* State
\* ------------------------------------------------------------------------
VARIABLES
    write_log, write_file, write_cache,   \* arguments of the call
    infile, tfile, popfile,               \* tmd.csv.gz, AREA_targets.csv, forecast
    cache, awfile, logfile,               \* cache_agi.npy, weights file, log file
    out,                                  \* text written to the log device
    pc, exc, rcode,                       \* position, exception raised, return code
    vdf, target_matrix, target_array, weights_scale, wght_us,
    loop, delta, wght0, res, wght_area, misses, minfo,
    calls,                                \* arguments of the minimize calls made
    wdict,                                \* the yearly weight columns
    awfile_at_entry,                      \* a weights file existed when called
    tc_ran,                               \* Tax-Calculator ran in the last load
    area, all_ok                          \* valid_area's argument and outcome

vars == <<write_log, write_file, write_cache, infile, tfile, popfile, cache,
          awfile, logfile, out, pc, exc, rcode, vdf, target_matrix,
          target_array, weights_scale, wght_us, loop, delta, wght0, res,
          wght_area, misses, minfo, calls, wdict, awfile_at_entry, tc_ran,
          area, all_ok>>

area_vars == <<area, all_ok>>
NoAreaResult == [raised |-> "none", value |-> FALSE]
NoAux == wdict = <<>> /\ awfile_at_entry = FALSE /\ tc_ran = FALSE
NoArea == area = <<>> /\ all_ok = NoAreaResult

args == <<write_log, write_file, write_cache>>
inputs == <<infile, tfile, popfile>>
prep_locals == <<target_matrix, target_array, weights_scale, wght_us>>
loop_locals == <<loop, delta, wght0, res, wght_area, misses, minfo, calls>>

NoRes == [x |-> <<>>, success |-> TRUE]

\* ------------------------------------------------------------------------
\* all_taxcalc_variables: the microdata with c00100 from the cache file or
\* from Tax-Calculator (infile[i].c00100 is what calc_all would compute)
\* ------------------------------------------------------------------------
\* the function without the test of line 165: calculate and save every time
all_taxcalc_variablesIgnoringCache(in, cachefile, wcache) ==
    LET agi == [i \in 1..Len(in) |-> in[i].c00100]
    IN [vdf |-> in,
        calculated |-> TRUE,
        cache |-> IF wcache THEN File(agi) ELSE cachefile,
        raised |-> IF \A i \in 1..Len(in) : in[i].s006 > 0 THEN "none"
                   ELSE "weights"]

all_taxcalc_variables(in, cachefile, wcache) ==
    LET agi == IF cachefile.exists THEN cachefile.data
               ELSE [i \in 1..Len(in) |-> in[i].c00100]
    IN IF Len(agi) # Len(in)
       THEN \* line 166: a column of another length cannot be assigned
            [vdf |-> <<>>, calculated |-> FALSE, cache |-> cachefile,
             raised |-> "length"]
       ELSE
       [vdf |-> [i \in 1..Len(in) |-> [in[i] EXCEPT !.c00100 = agi[i]]],
        calculated |-> ~cachefile.exists,
        cache |-> IF ~cachefile.exists /\ wcache THEN File(agi) ELSE cachefile,
        raised |-> IF \A i \in 1..Len(in) : in[i].s006 > 0 THEN "none"
                   ELSE "weights"]

\* ------------------------------------------------------------------------
\* Diagnostics written to the log
\* ------------------------------------------------------------------------
\* mean of the squared target deviations (the radicand of target_rmse)
MeanSquare(wght, matrix, targets) ==
    LET act == Dot(wght, matrix, Len(targets))
        sq == [j \in 1..Len(targets) |->
                  RMul(RSub(act[j], targets[j]), RSub(act[j], targets[j]))]
    IN RDiv(RSum(sq, Len(targets)), RInt(Len(targets)))

\* SUM OF SQUARED AREA/US WEIGHT RATIO DEVIATIONS
SsqDev(ratio) ==
    RSum([i \in 1..Len(ratio) |-> RInt((ratio[i] - 1) * (ratio[i] - 1))],
         Len(ratio))

\* the TARGETnnn labels of a miss listing (the log keeps the listing's
\* lines by label)
Labels(mstr) == [k \in 1..Len(mstr) |-> mstr[k].label]

ScaleWeights(x, w_us) == [i \in 1..Len(w_us) |-> RMul(RInt(x[i]), w_us[i])]

\* ------------------------------------------------------------------------
\* The regularization loop
\* ------------------------------------------------------------------------
LoopContinuesUnbounded(l) == TRUE
LoopContinues(l) == l <= DELTA_MAX_LOOPS

BreakLoopOnZeroMissesOnly(m, success) == m = 0
BreakLoop(m, success) == m = 0 \/ success = FALSE

\* the decrement of line 518 without the floor of lines 519-520
NextDeltaNoFloor(d) == d - DELTA_LOOP_DECREMENT
\* lines 518-520
NextDelta(d) ==
    IF d - DELTA_LOOP_DECREMENT < DELTA_FLOOR THEN 0
    ELSE d - DELTA_LOOP_DECREMENT

\* what one loop iteration writes to the log: the loop line, then the miss
\* listing unless the loop is left
IterationLogAfterBreak(line, mstr, brk) ==
    IF brk THEN <<>> ELSE <<line, [tag |-> "minfo", targets |-> Labels(mstr)]>>
IterationLog(line, mstr, brk) ==
    IF brk THEN <<line>>
    ELSE <<line, [tag |-> "minfo", targets |-> Labels(mstr)]>>

\* the initial guess handed to minimize in a loop iteration
InitialGuessWarmStart(w0, r) == IF r.x = <<>> THEN w0 ELSE r.x
InitialGuess(w0, r) == w0

\* ------------------------------------------------------------------------
\* Year extrapolation and the weights file
\* ------------------------------------------------------------------------
\* the growth of the last year only, in place of the running product
CumPopGrowthAnnualOnly(pop, year) ==
    IF year = FIRST_YEAR THEN RInt(1)
    ELSE RDiv(RInt(pop[year]), RInt(pop[year - 1]))

\* lines 561-564: cum_pop_growth after the loop pass of the given year
RECURSIVE CumPopGrowth(_, _)
CumPopGrowth(pop, year) ==
    IF year = FIRST_YEAR THEN RInt(1)
    ELSE RMul(CumPopGrowth(pop, year - 1),
              RDiv(RInt(pop[year]), RInt(pop[year - 1])))

WEIGHT_MULTIPLIER == 100

WeightsDict(w_area, pop) ==
    LET weights == [i \in 1..Len(w_area) |-> RMul(w_area[i], RInt(WEIGHT_MULTIPLIER))]
    IN [k \in 1..(LAST_YEAR - FIRST_YEAR + 1) |->
          LET year == FIRST_YEAR + k - 1
          IN [year |-> year,
              wght |-> IF k = 1 THEN weights
                       ELSE [i \in 1..Len(weights) |->
                               RMul(weights[i], CumPopGrowth(pop, year))]]]

\* float_format="%.0f": round to the nearest integer, ties to even
RoundHalfEven(r) ==
    IF r.d = 0 THEN r.n
    ELSE LET q == r.n \div r.d
             rem == r.n - q * r.d
         IN IF 2 * rem < r.d THEN q
            ELSE IF 2 * rem > r.d THEN q + 1
            ELSE IF q % 2 = 0 THEN q ELSE q + 1

WeightsCsv(wd) ==
    [k \in 1..Len(wd) |->
       [year |-> wd[k].year,
        wght |-> [i \in 1..Len(wd[k].wght) |-> RoundHalfEven(wd[k].wght[i])]]]

\* ------------------------------------------------------------------------
\* create_area_weights_file
\* ------------------------------------------------------------------------
NoLocals ==
    /\ vdf = <<>> /\ target_matrix = <<>> /\ target_array = <<>>
    /\ weights_scale = Unbound /\ wght_us = <<>>
    /\ loop = 0 /\ delta = 0 /\ wght0 = <<>> /\ res = NoRes
    /\ wght_area = <<>> /\ misses = 0 /\ minfo = <<>> /\ calls = <<>>
    /\ out = <<>> /\ exc = "none" /\ rcode = -1
    /\ NoAux

Init ==
    /\ write_log \in BOOLEAN /\ write_file \in BOOLEAN /\ write_cache \in BOOLEAN
    /\ infile \in LoopInfiles
    /\ tfile \in LoopTdfs
    /\ popfile = <<>>
    /\ cache \in {NoFile, File([i \in 1..Len(infile) |-> 0])}
    /\ \E old \in {<<NoFile, "absent">>, <<NoFile, "stale">>,
                   <<File(<<>>), "stale">>} :
         awfile = old[1] /\ logfile = old[2]
    /\ pc = "start"
    /\ NoLocals
    /\ NoArea

\* lines 424-425: awpath.unlink(missing_ok=True)
UnlinkNothing(f) == f
Unlink(f) == NoFile

\* lines 423-437: remove old files, open the log device, write the banner
Begin ==
    /\ pc = "start"
    /\ awfile_at_entry' = awfile.exists
    /\ awfile' = Unlink(awfile)
    /\ logfile' = IF write_log THEN "open" ELSE "absent"
    /\ out' = <<[tag |-> IF write_file THEN "creating" ELSE "calcs_only"]>>
    /\ pc' = "load"
    /\ UNCHANGED <<args, area_vars, wdict, tc_ran, inputs, cache, exc, rcode, vdf, prep_locals, loop_locals>>

\* line 444
LoadVariables ==
    /\ pc = "load"
    /\ LET r == all_taxcalc_variables(infile, cache, write_cache)
       IN /\ cache' = r.cache
          /\ tc_ran' = r.calculated
          /\ IF r.raised = "none"
             THEN vdf' = r.vdf /\ pc' = "prepare" /\ exc' = exc
             ELSE vdf' = vdf /\ pc' = "raised" /\ exc' = r.raised
    /\ UNCHANGED <<args, area_vars, wdict, awfile_at_entry, inputs, awfile, logfile, out, rcode, prep_locals,
                   loop_locals>>

\* lines 445-482: prepared_data, the initial statistics, the loop set-up
Prepare ==
    /\ pc = "prepare"
    /\ LET pd == prepared_data(vdf, tfile)
           ws == pd.initial_weights_scale
           w_us == [i \in 1..Len(vdf) |-> RMul(RInt(vdf[i].s006), ws)]
       IN IF pd.raised # "none"
          THEN /\ pc' = "raised"
               /\ exc' = pd.raised
               /\ UNCHANGED <<out, prep_locals, loop, delta, wght0>>
          ELSE /\ pc' = "solve"
               /\ exc' = exc
               /\ target_matrix' = pd.target_matrix
               /\ target_array' = pd.target_array
               /\ weights_scale' = ws
               /\ wght_us' = w_us
               /\ out' = out \o
                    <<[tag |-> "weights_scale", value |-> ws],
                      [tag |-> "num_targets", value |-> Len(pd.target_array)],
                      [tag |-> "us_rmse",
                       mse |-> MeanSquare(w_us, pd.target_matrix, pd.target_array)],
                      [tag |-> "optimize", delta |-> DELTA_INIT_VALUE]>>
               /\ loop' = 1
               /\ delta' = DELTA_INIT_VALUE
               /\ wght0' = Uniform(Len(w_us), 1)
    /\ UNCHANGED <<args, area_vars, wdict, awfile_at_entry, tc_ran, inputs, cache, awfile, logfile, rcode, vdf, res,
                   wght_area, misses, minfo, calls>>

\* lines 483-520: one iteration of the regularization loop; the solver may
\* return any iterate, converged or not
Solve ==
    /\ pc = "solve"
    /\ \E x \in SolverIterates(Len(wght0)), success \in BOOLEAN :
         LET w_area == ScaleWeights(x, wght_us)
             tm == target_misses(w_area, target_matrix, target_array)
             line == [tag |-> "loop", loop |-> loop, delta |-> delta,
                      misses |-> tm.num]
         IN /\ calls' = Append(calls, [x0 |-> InitialGuess(wght0, res),
                                       delta |-> delta])
            /\ res' = [x |-> x, success |-> success]
            /\ wght_area' = w_area
            /\ misses' = tm.num
            /\ minfo' = tm.mstr
            /\ IF BreakLoop(tm.num, success)
               THEN /\ out' = out \o IterationLog(line, tm.mstr, TRUE)
                    /\ pc' = "report"
                    /\ UNCHANGED <<loop, delta>>
               ELSE /\ out' = out \o IterationLog(line, tm.mstr, FALSE)
                    /\ loop' = loop + 1
                    /\ delta' = NextDelta(delta)
                    /\ pc' = IF LoopContinues(loop + 1) THEN "solve" ELSE "report"
    /\ UNCHANGED <<args, area_vars, wdict, awfile_at_entry, tc_ran, inputs, cache, awfile, logfile, exc, rcode, vdf,
                   prep_locals, wght0>>

\* lines 521-551: the final diagnostics; return 0 when no file is wanted
Report ==
    /\ pc = "report"
    /\ LET w_area == ScaleWeights(res.x, wght_us)
           tm == target_misses(w_area, target_matrix, target_array)
       IN /\ wght_area' = w_area
          /\ misses' = tm
          /\ out' = out \o
               <<[tag |-> "res_summary", success |-> res.success],
                 [tag |-> "final_misses", misses |-> tm],
                 [tag |-> "target_rmse", delta |-> delta,
                  mse |-> MeanSquare(w_area, target_matrix, target_array)],
                 [tag |-> "weight_ratio_distribution", delta |-> delta,
                  ssqdev |-> SsqDev(res.x)]>>
    /\ logfile' = IF write_log THEN "closed" ELSE logfile
    /\ IF write_file THEN pc' = "write" /\ rcode' = rcode
                     ELSE pc' = "done" /\ rcode' = 0
    /\ UNCHANGED <<args, area_vars, wdict, awfile_at_entry, tc_ran, inputs, cache, awfile, exc, vdf, prep_locals, loop,
                   delta, wght0, res, minfo, calls>>

\* lines 553-571: extrapolate over the years and write the weights file
WriteFile ==
    /\ pc = "write"
    /\ \E pop \in PopForecasts :
         /\ popfile' = pop
         /\ wdict' = WeightsDict(wght_area, pop)
         /\ awfile' = File(WeightsCsv(wdict'))
    /\ rcode' = 0
    /\ pc' = "done"
    /\ UNCHANGED <<args, area_vars, awfile_at_entry, tc_ran, infile, tfile, cache, logfile, out, exc, vdf, prep_locals,
                   loop_locals>>

Next == Begin \/ LoadVariables \/ Prepare \/ Solve \/ Report \/ WriteFile

Spec == Init /\ [][Next]_vars

\* ------------------------------------------------------------------------
\* prepared_data applied to bounded inputs
\* ------------------------------------------------------------------------
Idle ==
    /\ write_log = FALSE /\ write_file = FALSE /\ write_cache = FALSE
    /\ infile = <<>> /\ popfile = <<>>
    /\ cache = NoFile /\ awfile = NoFile /\ logfile = "absent"
    /\ out = <<>> /\ exc = "none" /\ rcode = -1
    /\ weights_scale = Unbound /\ wght_us = <<>>
    /\ loop = 0 /\ delta = 0 /\ wght0 = <<>> /\ res = NoRes
    /\ minfo = <<>> /\ calls = <<>>
    /\ NoAux

InitPrep ==
    /\ pc = "prep_in"
    /\ vdf \in Vardfs
    /\ tfile \in Tdfs
    /\ target_matrix = <<>> /\ target_array = <<>>
    /\ wght_area = <<>> /\ misses = 0
    /\ Idle
    /\ NoArea

PrepCall ==
    /\ pc = "prep_in"
    /\ LET pd == prepared_data(vdf, tfile)
       IN /\ exc' = pd.raised
          /\ target_matrix' = pd.target_matrix
          /\ target_array' = pd.target_array
          /\ weights_scale' = pd.initial_weights_scale
    /\ pc' = "prep_out"
    /\ UNCHANGED <<args, area_vars, wdict, awfile_at_entry, tc_ran, inputs, cache, awfile, logfile, out, rcode, vdf,
                   wght_us, loop_locals>>

NextPrep == PrepCall

SpecPrep == InitPrep /\ [][NextPrep]_vars

\* ------------------------------------------------------------------------
\* target_misses applied to bounded inputs
\* ------------------------------------------------------------------------
MissWeightVals == {1, 2, 1999, 2001}
MissTargetVals == {2000, -2000, 0}

\* a target column counts the first record only, or every record
MissColumns == {[i \in 1..NumRecs |-> RInt(IF i = 1 THEN 1 ELSE 0)],
                [i \in 1..NumRecs |-> RInt(1)]}

MissMatrices(m) == {Transpose(cols, NumRecs) : cols \in [1..m -> MissColumns]}

InitMiss ==
    /\ pc = "miss_in"
    /\ \E m \in 1..MaxRows :
         /\ target_matrix \in MissMatrices(m)
         /\ target_array \in [1..m -> {RInt(t) : t \in MissTargetVals}]
    /\ wght_area \in [1..NumRecs -> {RInt(w) : w \in MissWeightVals}]
    /\ vdf = <<>> /\ tfile = <<>> /\ misses = 0
    /\ Idle
    /\ NoArea

MissCall ==
    /\ pc = "miss_in"
    /\ misses' = target_misses(wght_area, target_matrix, target_array)
    /\ pc' = "miss_out"
    /\ UNCHANGED <<args, area_vars, wdict, awfile_at_entry, tc_ran, inputs, cache, awfile, logfile, out, exc, rcode, vdf,
                   prep_locals, loop, delta, wght0, res, wght_area, minfo, calls>>

NextMiss == MissCall

SpecMiss == InitMiss /\ [][NextMiss]_vars

\* ========================================================================
\* valid_area: an area code is a sequence of one-character strings
\* ========================================================================
MaxAreaLen == 4

\* lines 61-115: state |-> <<seats after the 2020 census, after the 2010 one>>
state_info ==
    "AL" :> <<7, 7>> @@ "AK" :> <<1, 1>> @@ "AZ" :> <<9, 9>> @@ "AR" :> <<4, 4>> @@
    "CA" :> <<52, 53>> @@ "CO" :> <<8, 7>> @@ "CT" :> <<5, 5>> @@ "DE" :> <<1, 1>> @@
    "FL" :> <<28, 27>> @@ "GA" :> <<14, 14>> @@ "HI" :> <<2, 2>> @@ "ID" :> <<2, 2>> @@
    "IL" :> <<17, 18>> @@ "IN" :> <<9, 9>> @@ "IA" :> <<4, 4>> @@ "KS" :> <<4, 4>> @@
    "KY" :> <<6, 6>> @@ "LA" :> <<6, 6>> @@ "ME" :> <<2, 2>> @@ "MD" :> <<8, 8>> @@
    "MA" :> <<9, 9>> @@ "MI" :> <<13, 14>> @@ "MN" :> <<8, 8>> @@ "MS" :> <<4, 4>> @@
    "MO" :> <<8, 8>> @@ "MT" :> <<2, 1>> @@ "NE" :> <<3, 3>> @@ "NV" :> <<4, 4>> @@
    "NH" :> <<2, 2>> @@ "NJ" :> <<12, 12>> @@ "NM" :> <<3, 3>> @@ "NY" :> <<26, 27>> @@
    "NC" :> <<14, 13>> @@ "ND" :> <<1, 1>> @@ "OH" :> <<15, 16>> @@ "OK" :> <<5, 5>> @@
    "OR" :> <<6, 5>> @@ "PA" :> <<17, 18>> @@ "RI" :> <<2, 2>> @@ "SC" :> <<7, 7>> @@
    "SD" :> <<1, 1>> @@ "TN" :> <<9, 9>> @@ "TX" :> <<38, 36>> @@ "UT" :> <<4, 4>> @@
    "VT" :> <<1, 1>> @@ "VA" :> <<11, 11>> @@ "WA" :> <<10, 10>> @@ "WV" :> <<2, 3>> @@
    "WI" :> <<8, 8>> @@ "WY" :> <<1, 1>> @@ "XX" :> <<1, 1>> @@ "YY" :> <<1, 1>> @@
    "ZZ" :> <<1, 1>>

SEATS_2020 == 1
SEATS_2010 == 2

RECURSIVE TotalSeats(_, _)
TotalSeats(codes, census) ==
    IF codes = {} THEN 0
    ELSE LET c == CHOOSE c \in codes : TRUE
         IN state_info[c][census] + TotalSeats(codes \ {c}, census)

\* lines 117-123
StateInfoValid ==
    /\ Cardinality(DOMAIN state_info) = 50 + 3
    /\ TotalSeats(DOMAIN state_info, SEATS_2010) = 435 + 3
    /\ TotalSeats(DOMAIN state_info, SEATS_2020) = 435 + 3

\* str.upper on the letters a..z; other characters are left as they are
UpperOf ==
    "a" :> "A" @@ "b" :> "B" @@ "c" :> "C" @@ "d" :> "D" @@ "e" :> "E" @@ "f" :> "F" @@
    "g" :> "G" @@ "h" :> "H" @@ "i" :> "I" @@ "j" :> "J" @@ "k" :> "K" @@ "l" :> "L" @@
    "m" :> "M" @@ "n" :> "N" @@ "o" :> "O" @@ "p" :> "P" @@ "q" :> "Q" @@ "r" :> "R" @@
    "s" :> "S" @@ "t" :> "T" @@ "u" :> "U" @@ "v" :> "V" @@ "w" :> "W" @@ "x" :> "X" @@
    "y" :> "Y" @@ "z" :> "Z"
ToUpper(c) == IF c \in DOMAIN UpperOf THEN UpperOf[c] ELSE c
UpperCaseLetters == {UpperOf[c] : c \in DOMAIN UpperOf}

\* str.islower: some cased character, and no upper-case one
IsLower(str) ==
    /\ \E i \in 1..Len(str) : str[i] \in DOMAIN UpperOf
    /\ \A i \in 1..Len(str) : str[i] \notin UpperCaseLetters

RECURSIVE Join(_)
Join(str) == IF str = <<>> THEN "" ELSE Head(str) \o Join(Tail(str))

\* area[a:b] with 0 <= a <= b, as Python slices a too short string
Slice(str, a, b) ==
    IF a >= Len(str) THEN <<>>
    ELSE SubSeq(str, a + 1, IF b < Len(str) THEN b ELSE Len(str))

DigitVal == "0" :> 0 @@ "1" :> 1 @@ "2" :> 2 @@ "3" :> 3 @@ "4" :> 4 @@ "5" :> 5 @@ "6" :> 6 @@ "7" :> 7 @@ "8" :> 8 @@ "9" :> 9
IsDigit(c) == c \in DOMAIN DigitVal

\* int() of a two-character string over digits and signs:
\* [raised |-> FALSE, value |-> n], or raised for a ValueError
IntOfTwo(str) ==
    IF IsDigit(str[1]) /\ IsDigit(str[2])
    THEN [raised |-> FALSE, value |-> 10 * DigitVal[str[1]] + DigitVal[str[2]]]
    ELSE IF str[1] = "+" /\ IsDigit(str[2])
    THEN [raised |-> FALSE, value |-> DigitVal[str[2]]]
    ELSE IF str[1] = "-" /\ IsDigit(str[2])
    THEN [raised |-> FALSE, value |-> 0 - DigitVal[str[2]]]
    ELSE [raised |-> TRUE, value |-> 0]

\* lines 52-157: [raised |-> the exception raised or "none", value |-> all_ok]
valid_area(a) ==
    LET ok_length == Len(a) = 2 \/ Len(a) = 4
        s_c == Slice(a, 0, 2)
        ok_lower == IsLower(s_c)
        scode == Join([i \in 1..Len(s_c) |-> ToUpper(s_c[i])])
        ok_state == scode \in DOMAIN state_info
        ok == ok_length /\ ok_lower /\ ok_state
    IN IF ~StateInfoValid THEN [raised |-> "AssertionError", value |-> FALSE]
       ELSE IF Len(a) # 4 THEN [raised |-> "none", value |-> ok]
       ELSE IF ~ok_state THEN [raised |-> "KeyError", value |-> FALSE]
       ELSE LET max_cdn == state_info[scode][SEATS_2010]
            IN IF max_cdn <= 1 THEN [raised |-> "none", value |-> FALSE]
               ELSE LET cdn == IntOfTwo(Slice(a, 2, 4))
                    IN IF cdn.raised
                       THEN [raised |-> "ValueError", value |-> FALSE]
                       ELSE [raised |-> "none",
                             value |-> /\ ok
                                       /\ ~(cdn.value <= 0)
                                       /\ ~(cdn.value > max_cdn)]

AreaChars == {"a", "k", "l", "A", "0", "1", "7", "8", "-", "+"}
AreasOfLen(n) == [1..n -> AreaChars]

InitArea ==
    /\ pc = "area_in"
    /\ \E n \in 0..MaxAreaLen : area \in AreasOfLen(n)
    /\ all_ok = NoAreaResult
    /\ vdf = <<>> /\ tfile = <<>>
    /\ target_matrix = <<>> /\ target_array = <<>>
    /\ wght_area = <<>> /\ misses = 0
    /\ Idle

AreaCall ==
    /\ pc = "area_in"
    /\ all_ok' = valid_area(area)
    /\ pc' = "area_out"
    /\ UNCHANGED <<args, area, wdict, awfile_at_entry, tc_ran, inputs, cache,
                   awfile, logfile, out, exc, rcode, vdf, prep_locals,
                   loop_locals>>

NextArea == AreaCall

SpecArea == InitArea /\ [][NextArea]_vars

\* ========================================================================
\* all_taxcalc_variables called again and again, as successive runs do
\* ========================================================================
CacheInfiles == Vardfs \cup LoopInfiles

InitCache ==
    /\ pc = "cache_calls"
    /\ vdf = <<>> /\ tfile = <<>>
    /\ target_matrix = <<>> /\ target_array = <<>>
    /\ wght_area = <<>> /\ misses = 0
    /\ Idle
    /\ NoArea

\* lines 160-183: one call, with the tmd.csv.gz found at the time
CacheCall ==
    /\ pc = "cache_calls"
    /\ \E in \in CacheInfiles, wc \in BOOLEAN :
         LET r == all_taxcalc_variables(in, cache, wc)
         IN /\ infile' = in
            /\ write_cache' = wc
            /\ cache' = r.cache
            /\ tc_ran' = r.calculated
            /\ exc' = r.raised
            /\ vdf' = IF r.raised = "none" THEN r.vdf ELSE <<>>
    /\ UNCHANGED <<write_log, write_file, tfile, popfile, awfile, logfile,
                   out, pc, rcode, prep_locals, loop_locals, wdict,
                   awfile_at_entry, area_vars>>

NextCache == CacheCall

SpecCache == InitCache /\ [][NextCache]_vars

\* ========================================================================
\* Properties
\* ========================================================================
Ones(n) == [i \in 1..n |-> 1]
LoopLines == SelectSeq(out, LAMBDA e : e.tag = "loop")
AfterLoop == pc \in {"report", "write", "done"}

\* C1: the regularization loop makes at least one and at most
\* DELTA_MAX_LOOPS solver calls; after solve k it is left exactly when that
\* solve had zero misses, or the solver reported success False, or k = 5,
\* and otherwise solve k+1 is performed.
C1_LoopBounded ==
    /\ Len(calls) <= DELTA_MAX_LOOPS
    /\ pc = "solve" =>
          /\ loop <= DELTA_MAX_LOOPS
          /\ Len(calls) = loop - 1
          /\ Len(calls) >= 1 => misses > 0 /\ res.success = TRUE
    /\ pc = "report" =>
          /\ Len(calls) >= 1
          /\ misses = 0 \/ res.success = FALSE \/ Len(calls) = DELTA_MAX_LOOPS
    /\ AfterLoop => Len(calls) >= 1

C1_Witness ==
    /\ pc = "report"
    /\ Len(calls) = DELTA_MAX_LOOPS
    /\ misses > 0
    /\ res.success = TRUE

\* C2: the delta passed to solve k is DELTA_INIT_VALUE minus (k-1) times
\* DELTA_INIT_VALUE / (DELTA_MAX_LOOPS - 1), replaced by 0 below 1e-20; it
\* is never negative, strictly decreases from solve to solve, and is 0 at
\* the fifth solve.
C2_ScheduledDelta(k) ==
    LET v == DELTA_INIT_VALUE
             - (k - 1) * (DELTA_INIT_VALUE \div (DELTA_MAX_LOOPS - 1))
    IN IF v < DELTA_FLOOR THEN 0 ELSE v

C2_DeltaSchedule ==
    \A k \in 1..Len(calls) :
        /\ calls[k].delta = C2_ScheduledDelta(k)
        /\ calls[k].delta >= 0
        /\ k > 1 => calls[k].delta < calls[k - 1].delta
        /\ k = DELTA_MAX_LOOPS => calls[k].delta = 0

C2_Witness == Len(calls) = DELTA_MAX_LOOPS /\ calls[DELTA_MAX_LOOPS].delta = 0

\* C3: every solver call starts from the neutral initial guess x = 1; the
\* initial-guess vector is never changed by the loop and no solve starts
\* from the iterate of the solve before it.
C3_NeutralInitialGuess ==
    /\ \A k \in 1..Len(calls) : calls[k].x0 = Ones(Len(vdf))
    /\ pc = "solve" \/ AfterLoop => wght0 = Ones(Len(vdf))

\* a second solve was made although the neutral vector hits every target,
\* so the first solve returned another iterate
C3_Witness ==
    /\ Len(calls) >= 2
    /\ target_misses(ScaleWeights(Ones(Len(vdf)), wght_us), target_matrix,
                     target_array).num = 0

\* C4: a solve that returns success False ends the loop without an abort;
\* its iterate times the scaled national weights is the area weight vector
\* of the final diagnostics and of the weights file, and the call returns 0.
C4_NonConvergenceNotFatal ==
    res.success = FALSE =>
        /\ AfterLoop
        /\ exc = "none"
        /\ wght_area = ScaleWeights(res.x, wght_us)
        /\ pc \in {"write", "done"} =>
              out[Len(out) - 2] =
                  [tag |-> "final_misses",
                   misses |-> target_misses(ScaleWeights(res.x, wght_us),
                                            target_matrix, target_array)]
        /\ pc = "done" =>
              /\ rcode = 0
              /\ write_file =>
                    /\ awfile.exists
                    /\ awfile.data = WeightsCsv(WeightsDict(
                                        ScaleWeights(res.x, wght_us), popfile))

C4_Witness ==
    /\ pc = "done"
    /\ res.success = FALSE
    /\ write_file
    /\ misses.num > 0
    /\ Len(calls) < DELTA_MAX_LOOPS

\* C5: a targets file with a count outside {0,1}, a scope outside {0,1,2},
\* an fstatus outside 0..5, or a population-target row that breaks the
\* convention makes prepared_data raise; the call then aborts with no
\* solver call made and no weights file written.
C5_InvalidTargets(tdf) ==
    \/ \E k \in 1..Len(tdf) :
          \/ tdf[k].count \notin {0, 1}
          \/ tdf[k].scope \notin {0, 1, 2}
          \/ tdf[k].fstatus \notin 0..5
    \/ ~(/\ tdf[1].varname = "XTOT" /\ tdf[1].count = 0 /\ tdf[1].scope = 0
         /\ tdf[1].fstatus = 0
         /\ tdf[1].agilo < -AGI_UNBOUNDED /\ tdf[1].agihi > AGI_UNBOUNDED)

C5_InvalidTargetsFatal ==
    C5_InvalidTargets(tfile) =>
        /\ pc \in {"start", "load", "prepare", "raised"}
        /\ calls = <<>>
        /\ rcode = -1
        /\ pc # "start" => ~awfile.exists

C5_Witness ==
    /\ pc = "raised"
    /\ exc \in {"population", "count", "scope", "fstatus"}
    /\ C5_InvalidTargets(tfile)

\* C6: on every path through the loop the log holds the initial weights
\* scale before the first loop line, one (loop, delta, misses) line per
\* solver call, and after the loop the final miss count, the target RMSE
\* and the weight-ratio distribution, all written before the weights file.
C6_FinalLines ==
    /\ Len(out) >= 3
    /\ out[Len(out) - 2].tag = "final_misses"
    /\ out[Len(out) - 1].tag = "target_rmse"
    /\ out[Len(out)].tag = "weight_ratio_distribution"
    /\ \A k \in 1..Len(out) : out[k].tag = "loop" => k < Len(out) - 2

C6_LogComplete ==
    /\ pc = "solve" \/ AfterLoop =>
          /\ out[2] = [tag |-> "weights_scale", value |-> weights_scale]
          /\ \A k \in 1..2 : out[k].tag # "loop"
    /\ Len(LoopLines) = Len(calls)
    /\ \A k \in 1..Len(LoopLines) :
          LoopLines[k].loop = k /\ LoopLines[k].delta = calls[k].delta
    /\ pc \in {"solve", "report"} /\ Len(calls) >= 1 =>
          LoopLines[Len(calls)].misses = misses
    /\ pc \in {"write", "done"} => C6_FinalLines
    /\ pc # "start" /\ awfile.exists => pc = "done" /\ C6_FinalLines

C6_Witness ==
    /\ pc = "done"
    /\ awfile.exists
    /\ Len(calls) = DELTA_MAX_LOOPS
    /\ Len(LoopLines) = DELTA_MAX_LOOPS

\* C7: target_misses counts exactly the targets whose achieved/expected
\* ratio is below 1-tol or at least 1+tol (a ratio of 1-tol is a hit, a
\* ratio of 1+tol a miss), and its listing holds one line per such target,
\* labelled with the 1-based target index, in target order, and is empty
\* when there is no miss.
C7_Lob == Rat(9995, 10000)
C7_Hib == Rat(10005, 10000)
C7_Ratio(j) ==
    RDiv(RSum([i \in 1..Len(wght_area) |->
                  RMul(wght_area[i], target_matrix[i][j])], Len(wght_area)),
         target_array[j])
C7_Outside == {j \in 1..Len(target_array) :
                  RLt(C7_Ratio(j), C7_Lob) \/ RGe(C7_Ratio(j), C7_Hib)}

C7_MissesExact ==
    pc = "miss_out" =>
        /\ misses.num = Cardinality(C7_Outside)
        /\ Len(misses.mstr) = misses.num
        /\ \A k \in 1..Len(misses.mstr) :
              /\ misses.mstr[k].label \in C7_Outside
              /\ misses.mstr[k].ratio = C7_Ratio(misses.mstr[k].label)
              /\ k > 1 => misses.mstr[k - 1].label < misses.mstr[k].label
        /\ \A j \in 1..Len(target_array) :
              /\ C7_Ratio(j) = C7_Lob => j \notin C7_Outside
              /\ C7_Ratio(j) = C7_Hib => j \in C7_Outside

C7_Witness ==
    /\ pc = "miss_out"
    /\ Len(target_array) = 2
    /\ C7_Ratio(1) = C7_Lob
    /\ C7_Ratio(2) = C7_Hib
    /\ misses.num = 1
    /\ misses.mstr[1].label = 2

\* C8: the initial weights scale times the national population, the sum
\* of s006 * XTOT, equals the target of the population-target row, so the
\* scaled weights s006 * initial_weights_scale reproduce that target.
C8_PopulationTarget == RInt(tfile[1].target)

C8_ScaleReproducesPopulation ==
    pc = "prep_out" /\ exc = "none" =>
        /\ RMul(weights_scale, RInt(NationalPopulation(vdf, Len(vdf))))
              = C8_PopulationTarget
        /\ RSum([i \in 1..Len(vdf) |->
                    RMul(RMul(RInt(vdf[i].s006), weights_scale),
                         RInt(vdf[i].XTOT))], Len(vdf))
              = C8_PopulationTarget

C8_Witness ==
    /\ pc = "prep_out"
    /\ exc = "none"
    /\ weights_scale.d > 1
    /\ \E i \in 1..Len(vdf) : vdf[i].XTOT # 1

\* C9 as stated: the second target row is the one checked against the
\* population-target convention and the one whose target gives the initial
\* weights scale.
C9_SecondRowIsPopulationRow ==
    pc = "prep_out" /\ exc = "none" /\ Len(tfile) >= 2 =>
        /\ PopulationConvention(tfile[2])
        /\ weights_scale = RDiv(RInt(tfile[2].target),
                                RInt(NationalPopulation(vdf, Len(vdf))))

\* C9 as amended: the first target row (line 2 of the targets CSV file,
\* whose line 1 is the header) is the one checked against the
\* population-target convention and the one whose target gives the initial
\* weights scale.
C9_FirstRowIsPopulationRow ==
    pc = "prep_out" /\ Len(tfile) >= 1 =>
        /\ ~PopulationConvention(tfile[1]) => exc = "population"
        /\ exc = "none" =>
              weights_scale = RDiv(RInt(tfile[1].target),
                                   RInt(NationalPopulation(vdf, Len(vdf))))

C9_Witness ==
    /\ pc = "prep_out"
    /\ exc = "none"
    /\ Len(tfile) >= 2
    /\ ~PopulationConvention(tfile[2])
    /\ tfile[2].target # tfile[1].target

\* C10: a target of zero is replaced by 1.0 before the reciprocal is
\* taken, so its scale is 1/1.0; every other row's scale is the reciprocal
\* of its target; every rescaled target is 1.0 and nothing is divided by
\* zero.
C10_Scale(t) == IF t = 0 THEN Rat(1, 1) ELSE Rat(1, t)

C10_ZeroTargetFloor ==
    pc = "prep_out" /\ exc = "none" =>
        \A k \in 1..Len(tfile) :
            /\ target_array[k] = RInt(1)
            /\ \A i \in 1..Len(vdf) :
                  /\ target_matrix[i][k].d # 0
                  /\ target_matrix[i][k] =
                        RMul(RInt(Mask(tfile[k], vdf[i])
                                  * UnmaskedValue(tfile[k], vdf[i])),
                             C10_Scale(tfile[k].target))

C10_Witness ==
    /\ pc = "prep_out"
    /\ exc = "none"
    /\ \E k \in 1..Len(tfile) :
          /\ tfile[k].target = 0
          /\ \E i \in 1..Len(vdf) : target_matrix[i][k].n # 0
    /\ \E k \in 1..Len(tfile) : tfile[k].target < 0

\* C11: entry (i, j) of the target matrix is scale_j times the value of
\* record i for target row j when the record passes the scope filter, the
\* half-open income band agilo <= c00100 < agihi and the filing-status
\* filter, and 0 otherwise; the value is the variable (count 0) or the
\* indicator of the variable being positive (count 1); column j belongs to
\* target row j.
C11_Passes(row, rec) ==
    /\ row.scope = 0 \/ (row.scope = 1 /\ rec.data_source = 1)
                     \/ (row.scope = 2 /\ rec.data_source = 0)
    /\ row.agilo <= rec.c00100 /\ rec.c00100 < row.agihi
    /\ row.fstatus = 0 \/ (row.fstatus > 0 /\ rec.MARS = row.fstatus)

C11_Value(row, rec) ==
    IF row.count = 0 THEN rec[row.varname]
    ELSE IF rec[row.varname] > 0 THEN 1 ELSE 0

C11_Entry(row, rec) ==
    IF C11_Passes(row, rec)
    THEN Rat(C11_Value(row, rec), IF row.target = 0 THEN 1 ELSE row.target)
    ELSE RInt(0)

C11_MatrixEntries ==
    pc = "prep_out" /\ exc = "none" =>
        /\ Len(target_matrix) = Len(vdf)
        /\ \A i \in 1..Len(vdf) :
              /\ Len(target_matrix[i]) = Len(tfile)
              /\ \A j \in 1..Len(tfile) :
                    target_matrix[i][j] = C11_Entry(tfile[j], vdf[i])

\* a record on the upper band limit is left out of a column that another
\* record enters with a nonzero value
C11_Witness ==
    /\ pc = "prep_out"
    /\ exc = "none"
    /\ \E j \in 1..Len(tfile), i, k \in 1..Len(vdf) :
          /\ vdf[i].c00100 = tfile[j].agihi
          /\ C11_Value(tfile[j], vdf[i]) # 0
          /\ tfile[j].scope = 0 /\ tfile[j].fstatus = 0
          /\ target_matrix[i][j] = RInt(0)
          /\ vdf[k].c00100 = tfile[j].agilo
          /\ target_matrix[k][j].n # 0

\* C12: the yearly weight series has one column per year from FIRST_YEAR
\* through LAST_YEAR in increasing year order; the FIRST_YEAR column is the
\* calibrated area weights times 100, and the column of a later year t is the
\* FIRST_YEAR column times the product of pop[k]/pop[k-1] for
\* k = FIRST_YEAR+1..t, the same factor for every record.
RECURSIVE C12_Product(_, _)
C12_Product(pop, t) ==
    IF t <= FIRST_YEAR THEN RInt(1)
    ELSE RMul(Rat(pop[t], pop[t - 1]), C12_Product(pop, t - 1))
C12_YearExtrapolation ==
    pc = "done" /\ write_file =>
      /\ Len(wdict) = LAST_YEAR - FIRST_YEAR + 1
      /\ \A k \in 1..Len(wdict) : wdict[k].year = FIRST_YEAR + k - 1
      /\ \A k \in 1..Len(wdict) : Len(wdict[k].wght) = Len(wght_area)
      /\ \A i \in 1..Len(wght_area) :
            wdict[1].wght[i] = RMul(wght_area[i], RInt(100))
      /\ \A k \in 2..Len(wdict) : \A i \in 1..Len(wght_area) :
            wdict[k].wght[i] =
              RMul(wdict[1].wght[i], C12_Product(popfile, wdict[k].year))
\* populations 100, 110, 121 give w0, 1.1*w0, 1.21*w0 with w0 not zero
C12_Witness ==
    /\ pc = "done" /\ write_file
    /\ popfile[FIRST_YEAR] = 100 /\ popfile[FIRST_YEAR + 1] = 110
    /\ popfile[FIRST_YEAR + 2] = 121
    /\ \E i \in 1..Len(wght_area) :
         /\ wdict[1].wght[i].n # 0
         /\ wdict[2].wght[i] = RMul(wdict[1].wght[i], Rat(11, 10))
         /\ wdict[3].wght[i] = RMul(wdict[1].wght[i], Rat(121, 100))

\* C13: valid_area returns a boolean for every area code string; it returns
\* True exactly for a known lower-case two-letter state code, optionally
\* followed by a two-digit district number between 1 and the seat count of
\* a state with more than one district, and False for every other code.
C13_DistrictNumber(a) == 10 * DigitVal[a[3]] + DigitVal[a[4]]
C13_ValidCode(a) ==
    /\ Len(a) = 2 \/ Len(a) = 4
    /\ a[1] \in DOMAIN UpperOf /\ a[2] \in DOMAIN UpperOf
    /\ UpperOf[a[1]] \o UpperOf[a[2]] \in DOMAIN state_info
    /\ Len(a) = 4 =>
         /\ state_info[UpperOf[a[1]] \o UpperOf[a[2]]][SEATS_2010] > 1
         /\ IsDigit(a[3]) /\ IsDigit(a[4])
         /\ C13_DistrictNumber(a) >= 1
         /\ C13_DistrictNumber(a) <=
              state_info[UpperOf[a[1]] \o UpperOf[a[2]]][SEATS_2010]
C13_ReturnsBoolean ==
    pc = "area_out" =>
      /\ all_ok.raised = "none"
      /\ all_ok.value = C13_ValidCode(area)

\* C14: on every exit path of the regularization loop the delta handed
\* after the loop to target_rmse and to weight_ratio_distribution equals the
\* delta of the last minimize call; after the fifth solve the further
\* decrement leaves it at 0.
C14_ReportedDeltaIsLastSolved ==
    pc \in {"write", "done"} =>
      LET n == Len(out)
          last == calls[Len(calls)]
      IN /\ out[n - 1].tag = "target_rmse"
         /\ out[n].tag = "weight_ratio_distribution"
         /\ out[n - 1].delta = last.delta
         /\ out[n].delta = last.delta
         /\ loop > DELTA_MAX_LOOPS => last.delta = 0 /\ delta = 0
C14_Witness ==
    /\ pc = "done"
    /\ Len(calls) = DELTA_MAX_LOOPS /\ loop = DELTA_MAX_LOOPS + 1
    /\ misses.num > 0 /\ res.success
    /\ calls[DELTA_MAX_LOOPS - 1].delta > 0
    /\ calls[DELTA_MAX_LOOPS].delta = 0
    /\ out[Len(out)].delta = 0

\* C15: once a call of create_area_weights_file has started, a weights file
\* for the area exists only if this call ran to completion with write_file
\* True, and then it holds this call's weights; the weights file and the log
\* of an earlier run are gone before any calculation, so a call that aborts
\* on a fatal error, or runs with write_file False, leaves no weights file.
C15_NoStaleWeightsFile ==
    pc # "start" =>
      /\ awfile.exists =>
           /\ pc = "done" /\ write_file /\ exc = "none" /\ rcode = 0
           /\ awfile.data = WeightsCsv(wdict)
           /\ Len(awfile.data) = LAST_YEAR - FIRST_YEAR + 1
      /\ logfile # "stale"
      /\ pc = "raised" => ~awfile.exists
      /\ pc = "done" /\ ~write_file => ~awfile.exists
C15_Witness ==
    /\ awfile_at_entry
    /\ pc = "raised" /\ exc # "none"
    /\ ~awfile.exists
    /\ write_file

\* C16: across any sequence of all_taxcalc_variables calls the cache file is
\* written only by a call that found no cache file and was given write_cache
\* True; once the file exists no later call changes it, and every later call
\* that returns has c00100 equal to the cache contents, without running the
\* tax calculator, whatever its write_cache.
C16_Calculated(in) == [i \in 1..Len(in) |-> in[i].c00100]
C16_CallStep ==
    /\ cache' # cache =>
         /\ ~cache.exists /\ write_cache'
         /\ cache' = File(C16_Calculated(infile'))
    /\ cache.exists =>
         /\ cache' = cache
         /\ ~tc_ran'
         /\ exc' = "none" =>
              /\ Len(vdf') = Len(infile')
              /\ \A i \in 1..Len(vdf') : vdf'[i].c00100 = cache.data[i]
    /\ ~cache.exists =>
         /\ tc_ran'
         /\ cache'.exists <=> write_cache'
C16_CacheWrittenOnce == [][C16_CallStep]_vars
C16_Witness ==
    /\ pc = "cache_calls"
    /\ cache.exists /\ ~tc_ran /\ write_cache /\ exc = "none"
    /\ \A i \in 1..Len(vdf) : vdf[i].c00100 = cache.data[i]
    /\ \E i \in 1..Len(infile) : infile[i].c00100 # cache.data[i]

====
